---- MODULE Spec2Model ----
(***************************************************************************)
(* Model of chris_backend/plugininstances/services/manager.py: the plugin  *)
(* instance manager that submits a job to the remote pfcon service         *)
(* (run_plugin_instance_app), polls it                                     *)
(* (check_plugin_instance_app_exec_status) and finalizes it.               *)
(*                                                                         *)
(* One job (plugin instance) is modelled.  Process 0 is the single         *)
(* invocation of run_plugin_instance_app; processes 1..NPolls are          *)
(* invocations of check_plugin_instance_app_exec_status, each on a         *)
(* PluginInstance object of its own that it loaded from the database.      *)
(* Every action is the code between two points where another process can   *)
(* interleave: a database statement, a request to pfcon, or the swift      *)
(* storage calls of one helper.                                            *)
(*                                                                         *)
(* Strings the code slices (paths, zip entry names) are sequences of       *)
(* one-character strings; a log string is an interval [lo, hi) of the      *)
(* remote's log stream, so that its length and its tail are computed.      *)
(***************************************************************************)
EXTENDS Integers, Sequences, FiniteSets, TLC

VARIABLES job, db, locks, files, swift, remote, pc, inst, tmp, ret, log

vars == <<job, db, locks, files, swift, remote, pc, inst, tmp, ret, log>>

\* Number of concurrent invocations of check_plugin_instance_app_exec_status.
NPolls == 2

\* The invocation of run_plugin_instance_app; the others are polls.
SubmitProc == 0
Polls == 1..NPolls
Procs == {SubmitProc} \cup Polls

----------------------------------------------------------------------------
(* Strings as sequences of characters                                      *)

SLASH == "/"
COMMA == ","

RECURSIVE LStrip(_, _)
\* str.lstrip(ch)
LStrip(s, ch) == IF s # <<>> /\ Head(s) = ch THEN LStrip(Tail(s), ch) ELSE s

RECURSIVE RStrip(_, _)
\* str.rstrip(ch)
RStrip(s, ch) ==
    IF s # <<>> /\ s[Len(s)] = ch THEN RStrip(SubSeq(s, 1, Len(s) - 1), ch) ELSE s

\* str.strip(ch)
Strip(s, ch) == RStrip(LStrip(s, ch), ch)

\* str.startswith(pre)
StartsWith(s, pre) == Len(pre) <= Len(s) /\ SubSeq(s, 1, Len(pre)) = pre

\* str.find(old): the first index (1-based) where old occurs in s, 0 if none
Find(s, old) ==
    LET hits == {i \in 1..(Len(s) - Len(old) + 1) :
                    SubSeq(s, i, i + Len(old) - 1) = old}
    IN  IF hits = {} THEN 0 ELSE CHOOSE i \in hits : \A j \in hits : i <= j

\* str.replace(old, new, 1): only the first occurrence is replaced
Replace1(s, old, new) ==
    LET i == Find(s, old)
    IN  IF i = 0 THEN s
        ELSE SubSeq(s, 1, i - 1) \o new \o SubSeq(s, i + Len(old), Len(s))

RECURSIVE Split(_, _)
\* str.split(ch): always at least one piece
Split(s, ch) ==
    LET i == Find(s, <<ch>>)
    IN  IF i = 0 THEN <<s>>
        ELSE <<SubSeq(s, 1, i - 1)>> \o Split(SubSeq(s, i + 1, Len(s)), ch)

\* os.path.join(a, b) for a relative b
PathJoin(a, b) == IF a # <<>> /\ a[Len(a)] = SLASH THEN a \o b ELSE a \o <<SLASH>> \o b

\* The elements of a sequence
Range(s) == {s[i] : i \in 1..Len(s)}

----------------------------------------------------------------------------
(* The job and the world around it                                         *)

\* PluginInstance.get_output_path() of this job and of its previous job
OutputPath == <<"o">>
PreviousOutputPath == <<"p">>

\* os.path.expanduser("~")
HomeDir == <<"/", "h">>

\* Parameter instances (flag, type, action of the plugin parameter; value)
PathParam ==
    [flag |-> "--dir", type |-> "path", action |-> "store",
     value |-> <<"/", "i", ",", "j">>]
FlagParam ==
    [flag |-> "--v", type |-> "boolean", action |-> "store_true", value |-> TRUE]
UnextpathParam ==
    [flag |-> "--un", type |-> "unextpath", action |-> "store",
     value |-> <<"u", "/", ",", "w">>]
\* More parameter instances: a second 'path' parameter, whose first value
\* ends with a slash, a 'string' parameter, flags that are off, store_false
PathParam2 ==
    [flag |-> "--dir2", type |-> "path", action |-> "store",
     value |-> <<"/", "k", "/", ",", "m">>]
StrParam ==
    [flag |-> "--s", type |-> "string", action |-> "store", value |-> <<"a">>]
FlagOffParam ==
    [flag |-> "--q", type |-> "boolean", action |-> "store_true", value |-> FALSE]
NoFlagParam ==
    [flag |-> "--n", type |-> "boolean", action |-> "store_false", value |-> FALSE]
NoFlagOffParam ==
    [flag |-> "--m", type |-> "boolean", action |-> "store_false", value |-> TRUE]

\* The jobs submitted: whether the job has a previous job, and its parameter
\* instances in declaration order
Jobs ==
    { [previous |-> FALSE, params |-> <<>>],
      [previous |-> FALSE, params |-> <<PathParam, FlagParam>>],
      [previous |-> TRUE, params |-> <<PathParam, UnextpathParam>>] }

\* Objects in swift storage before the job is submitted: path -> bytes
InitialObjects ==
    ( <<"p", "/", "x">> :> "Bx" ) @@
    ( <<"i", "/", "y">> :> "By" ) @@
    ( <<"i", "/", "z">> :> "Bz" ) @@
    ( <<"u", "/", "f">> :> "Bf" )

\* The result archive the remote serves for the job
ResultZip ==
    << [name |-> <<"/", "r">>, data |-> "Br"],
       [name |-> <<"s">>, data |-> "Bs"] >>

NoDate == "None"
\* django.utils.timezone.now()
timezone_now == "now"

TerminalStatus == {"finishedSuccessfully", "finishedWithError", "cancelled"}

----------------------------------------------------------------------------
(* Swift storage (core.swiftmanager.SwiftManager): path -> bytes           *)

RECURSIVE SetToSeq(_)
\* Some fixed enumeration of a finite set (the order of a listing)
SetToSeq(S) ==
    IF S = {} THEN <<>>
    ELSE LET x == CHOOSE y \in S : TRUE IN <<x>> \o SetToSeq(S \ {x})

\* SwiftManager.ls(path): the objects whose name starts with path
swift_ls(sw, path) == SetToSeq({o \in DOMAIN sw : StartsWith(o, path)})

\* SwiftManager.obj_exists(path)
swift_obj_exists(sw, path) == path \in DOMAIN sw

\* SwiftManager.upload_obj(path, contents): creates or overwrites
swift_upload_obj(sw, path, contents) ==
    [o \in DOMAIN sw \cup {path} |-> IF o = path THEN contents ELSE sw[o]]

\* SwiftManager.copy_obj(src, dst)
swift_copy_obj(sw, src, dst) == swift_upload_obj(sw, dst, sw[src])

----------------------------------------------------------------------------
(* Python dicts keep insertion order: a sequence of [k, v] pairs           *)

DictSet(d, k, v) ==
    IF \E i \in DOMAIN d : d[i].k = k
    THEN [i \in DOMAIN d |-> IF d[i].k = k THEN [k |-> k, v |-> v] ELSE d[i]]
    ELSE Append(d, [k |-> k, v |-> v])

DictKeys(d) == [i \in DOMAIN d |-> d[i].k]

----------------------------------------------------------------------------
(* get_plugin_instance_app_cmd_args                                        *)

\* The bug of reading store_false as store_true
cmd_args_step_store_false_as_true(acc, param) ==
    LET stored ==
            IF param.action = "store"
            THEN [args |-> acc.args \o <<param.flag, param.value>>,
                  unextpath |-> IF param.type = "unextpath"
                                THEN DictSet(acc.unextpath, param.flag, param.value)
                                ELSE acc.unextpath,
                  path |-> IF param.type = "path"
                           THEN DictSet(acc.path, param.flag, param.value)
                           ELSE acc.path]
            ELSE acc
    IN  IF param.action \in {"store_true", "store_false"} /\ param.value = TRUE
        THEN [stored EXCEPT !.args = Append(@, param.flag)]
        ELSE stored

\* One iteration of the loop over the parameter instances
cmd_args_step(acc, param) ==
    LET stored ==
            IF param.action = "store"
            THEN [args |-> acc.args \o <<param.flag, param.value>>,
                  unextpath |-> IF param.type = "unextpath"
                                THEN DictSet(acc.unextpath, param.flag, param.value)
                                ELSE acc.unextpath,
                  path |-> IF param.type = "path"
                           THEN DictSet(acc.path, param.flag, param.value)
                           ELSE acc.path]
            ELSE acc
        st == IF param.action = "store_true" /\ param.value = TRUE
              THEN [stored EXCEPT !.args = Append(@, param.flag)]
              ELSE stored
    IN  IF param.action = "store_false" /\ param.value = FALSE
        THEN [st EXCEPT !.args = Append(@, param.flag)]
        ELSE st

RECURSIVE cmd_args_loop(_, _)
cmd_args_loop(acc, params) ==
    IF params = <<>> THEN acc
    ELSE cmd_args_loop(cmd_args_step(acc, Head(params)), Tail(params))

get_plugin_instance_app_cmd_args(params) ==
    cmd_args_loop([args |-> <<"--saveinputmeta", "--saveoutputmeta">>,
                   unextpath |-> <<>>, path |-> <<>>], params)

----------------------------------------------------------------------------
(* The calls of an invocation                                              *)

\* What an invocation has done so far, in order: its requests to pfcon, its
\* storage calls and its database statements.  A save records the status and
\* the end_date it wrote; a request how it ended ("failed": an exception or a
\* status code other than 200) and the step-status list it returned.
Op(name) == [op |-> name, status |-> "", end_date |-> "", l_status |-> <<>>]
SaveOp(row) ==
    [op |-> "save", status |-> row.status, end_date |-> row.end_date, l_status |-> <<>>]
ReqOp(name, outcome, l_status) ==
    [op |-> name,
     status |-> IF outcome \in {"exception", "error"} THEN "failed" ELSE outcome,
     end_date |-> "", l_status |-> l_status]

\* A call that raised (ClientException)
RaisedOp(name) == [op |-> name, status |-> "raised", end_date |-> "", l_status |-> <<>>]

Ops(names) == [i \in DOMAIN names |-> Op(names[i])]

----------------------------------------------------------------------------
(* manage_fsplugin_instance_app_empty_inputdir                             *)

\* str_inputdir = os.path.join(data_dir, 'squashEmptyDir').lstrip('/')
EmptyInputDir == LStrip(PathJoin(PathJoin(HomeDir, <<"d">>), <<"s">>), SLASH)
\* str_squashFile
SquashFile == PathJoin(EmptyInputDir, <<"t">>)

\* Which storage call of it raises ClientException, if any
SentinelFails == {"none", "obj_exists", "upload_obj"}

\* The bug of uploading the object without asking whether it exists
empty_inputdir_always_uploads(sw, fails) ==
    IF fails = "upload_obj"
    THEN [sw |-> sw, ops |-> <<RaisedOp("swift_upload_obj")>>]
    ELSE [sw |-> swift_upload_obj(sw, SquashFile, "Empty input dir."),
          ops |-> <<Op("swift_upload_obj")>>]

\* [sw, ops]: the storage after the call and the storage calls it made; a
\* ClientException is logged and the call returns str_inputdir all the same.
manage_fsplugin_instance_app_empty_inputdir(sw, fails) ==
    IF fails = "obj_exists"
    THEN [sw |-> sw, ops |-> <<RaisedOp("swift_obj_exists")>>]
    ELSE IF swift_obj_exists(sw, SquashFile)
    THEN [sw |-> sw, ops |-> <<Op("swift_obj_exists")>>]
    ELSE IF fails = "upload_obj"
    THEN [sw |-> sw, ops |-> <<Op("swift_obj_exists"), RaisedOp("swift_upload_obj")>>]
    ELSE [sw |-> swift_upload_obj(sw, SquashFile, "Empty input dir."),
          ops |-> <<Op("swift_obj_exists"), Op("swift_upload_obj")>>]

----------------------------------------------------------------------------
(* create_zip_file                                                         *)

RECURSIVE zip_objects(_, _, _, _, _, _)
\* The inner loop over l_ls.  contents is <<>> while the local variable
\* 'contents' is unbound and <<bytes>> once a download has assigned it: a
\* failed download is logged and writestr then uses what 'contents' holds.
\* Result: [raised, entries, contents].
zip_objects(sw, l_ls, swift_path, bad, contents, entries) ==
    IF l_ls = <<>> THEN [raised |-> FALSE, entries |-> entries, contents |-> contents]
    ELSE LET obj_path == Head(l_ls)
             got == IF obj_path \in bad THEN contents ELSE <<sw[obj_path]>>
             zip_path == LStrip(Replace1(obj_path, swift_path, <<>>), SLASH)
         IN  IF got = <<>>
             THEN [raised |-> TRUE, entries |-> entries, contents |-> got]
             ELSE zip_objects(sw, Tail(l_ls), swift_path, bad, got,
                              Append(entries, [name |-> zip_path, data |-> got[1]]))

RECURSIVE zip_paths(_, _, _, _, _, _)
zip_paths(sw, swift_paths, lsFails, bad, contents, entries) ==
    IF swift_paths = <<>> THEN [raised |-> FALSE, entries |-> entries]
    ELSE LET swift_path == Head(swift_paths)
             l_ls == IF swift_path \in lsFails THEN <<>> ELSE swift_ls(sw, swift_path)
             r == zip_objects(sw, l_ls, swift_path, bad, contents, entries)
         IN  IF r.raised THEN [raised |-> TRUE, entries |-> r.entries]
             ELSE zip_paths(sw, Tail(swift_paths), lsFails, bad, r.contents, r.entries)

\* lsFails: the prefixes whose listing raises ClientException; bad: the
\* objects whose download raises ClientException.
create_zip_file(sw, swift_paths, lsFails, bad) ==
    zip_paths(sw, swift_paths, lsFails, bad, <<>>, <<>>)

----------------------------------------------------------------------------
(* _register_output_files                                                  *)

\* PluginInstanceFile.save(): the record is inserted unless the name is
\* registered already (IntegrityError)
file_save_ok(fl, obj_name) == obj_name \notin Range(fl)

RECURSIVE register_output_files_stops(_, _)
\* The bug of letting the IntegrityError end the loop
register_output_files_stops(fl, filenames) ==
    IF filenames = <<>> THEN fl
    ELSE LET obj_name == Head(filenames)
         IN  IF file_save_ok(fl, obj_name)
             THEN register_output_files_stops(Append(fl, obj_name), Tail(filenames))
             ELSE fl

RECURSIVE register_output_files(_, _)
\* The loop of lines 409-416: an IntegrityError is logged and the loop goes on
register_output_files(fl, filenames) ==
    IF filenames = <<>> THEN fl
    ELSE LET obj_name == Head(filenames)
         IN  register_output_files(
                 IF file_save_ok(fl, obj_name) THEN Append(fl, obj_name) ELSE fl,
                 Tail(filenames))

----------------------------------------------------------------------------
(* _handle_app_unextpath_parameters                                        *)

RECURSIVE FlattenPaths(_)
\* The paths of every unextpath parameter, in loop order
FlattenPaths(d) ==
    IF d = <<>> THEN <<>> ELSE Split(Head(d).v, COMMA) \o FlattenPaths(Tail(d))

\* The bug of taking the replacement as it comes
unextpath_dest_as_replaced(obj, path, outputdir) ==
    Replace1(obj, RStrip(path, SLASH), outputdir)

\* Destination of obj (listed under path) in the job's output dir
unextpath_dest(obj, path, outputdir) ==
    LET obj_output_path == Replace1(obj, RStrip(path, SLASH), outputdir)
        pieces == Split(obj, SLASH)
    IN  IF StartsWith(obj_output_path, outputdir \o <<SLASH>>)
        THEN obj_output_path
        ELSE outputdir \o <<SLASH>> \o pieces[Len(pieces)]

RECURSIVE unextpath_objects(_, _, _, _, _)
\* The loop over obj_list: [sw, out, ops] after copying
unextpath_objects(acc, obj_list, path, outputdir, copyFails) ==
    IF obj_list = <<>> THEN acc
    ELSE LET obj == Head(obj_list)
             dst == unextpath_dest(obj, path, outputdir)
         IN  unextpath_objects(
                 IF obj \in copyFails
                 THEN [acc EXCEPT !.ops = Append(@, "swift_copy_obj")]
                 ELSE [sw |-> swift_copy_obj(acc.sw, obj, dst),
                       out |-> Append(acc.out, dst),
                       ops |-> Append(acc.ops, "swift_copy_obj")],
                 Tail(obj_list), path, outputdir, copyFails)

RECURSIVE unextpath_paths(_, _, _, _, _)
unextpath_paths(acc, path_list, outputdir, lsFails, copyFails) ==
    IF path_list = <<>> THEN acc
    ELSE LET path == Head(path_list)
             obj_list == IF path \in lsFails THEN <<>> ELSE swift_ls(acc.sw, path)
         IN  unextpath_paths(
                 unextpath_objects([acc EXCEPT !.ops = Append(@, "swift_ls")],
                                   obj_list, path, outputdir, copyFails),
                 Tail(path_list), outputdir, lsFails, copyFails)

\* [sw, out, ops]: the storage after the copies, obj_output_path_list and
\* the storage calls made
handle_app_unextpath_parameters(sw, unextpath_parameters_dict, lsFails, copyFails) ==
    unextpath_paths([sw |-> sw, out |-> <<>>, ops |-> <<>>],
                    FlattenPaths(unextpath_parameters_dict),
                    OutputPath, lsFails, copyFails)

----------------------------------------------------------------------------
(* unpack_zip_file                                                         *)

RECURSIVE unpack_entries(_, _, _, _)
\* Uploads entry after entry; the upload of entry number failAt (0: none)
\* raises ClientException, which ends the loop with the earlier uploads done.
\* Result: [raised, sw, names].
unpack_entries(acc, entries, k, failAt) ==
    IF entries = <<>> THEN acc
    ELSE LET e == Head(entries)
             swift_fname == (OutputPath \o <<SLASH>>) \o LStrip(e.name, SLASH)
         IN  IF k = failAt THEN [acc EXCEPT !.raised = TRUE]
             ELSE unpack_entries(
                      [raised |-> FALSE,
                       sw |-> swift_upload_obj(acc.sw, swift_fname, e.data),
                       names |-> Append(acc.names, swift_fname)],
                      Tail(entries), k + 1, failAt)

\* content: [good, entries]; a bad zip file makes zipfile.ZipFile raise
unpack_zip_file(sw, content, failAt) ==
    IF ~content.good THEN [raised |-> TRUE, sw |-> sw, names |-> <<>>]
    ELSE unpack_entries([raised |-> FALSE, sw |-> sw, names |-> <<>>],
                        content.entries, 1, failAt)

----------------------------------------------------------------------------
(* The pfcon responses and get_job_status_summary                          *)

\* Length above which the first log entry is cut
MaxLogLen == 3000

\* l_status and l_logs the remote reports in each of its states
RemoteLStatus(rs) ==
    CASE rs = "finishedSuccessfully" -> <<"finishedSuccessfully">>
      [] rs = "finishedWithError" -> <<"finishedWithError">>
      [] rs = "mixed" -> <<"finishedWithError", "finishedSuccessfully">>
      [] OTHER -> <<"started">>

RemoteLogs(rs) ==
    CASE rs = "finishedSuccessfully" ->
           <<[lo |-> 0, hi |-> MaxLogLen + 1], [lo |-> 0, hi |-> MaxLogLen + 2]>>
      [] rs = "finishedWithError" -> <<[lo |-> 5, hi |-> MaxLogLen + 5]>>
      [] rs = "mixed" ->
           <<[lo |-> 0, hi |-> MaxLogLen - 1], [lo |-> 0, hi |-> 2 * MaxLogLen]>>
      [] OTHER -> <<>>

\* The JSON body of a 200 response to GET /api/v1/<jid>/
StatusResponse(rs) ==
    [compute |-> [status |-> rs # "running",
                  d_ret |-> [l_status |-> RemoteLStatus(rs),
                             l_logs |-> RemoteLogs(rs)]]]

\* The bug of logs[:3000]
LogHead(l) == [lo |-> l.lo,
               hi |-> IF l.hi - l.lo > MaxLogLen THEN l.lo + MaxLogLen ELSE l.hi]

\* logs[-3000:]
LogTail(l) == [lo |-> IF l.hi - l.lo > MaxLogLen THEN l.hi - MaxLogLen ELSE l.lo,
               hi |-> l.hi]

\* json.dumps / json.loads: a persisted string field is <<>> when empty and
\* <<d>> when it holds the JSON text of d
json_dumps(d) == <<d>>
json_loads(str) == str[1]

\* The summary with no response (d_response=None)
InitialSummary ==
    [pushPath |-> TRUE, pullPath |-> FALSE, submit |-> TRUE,
     return |-> [status |-> FALSE, l_status |-> <<>>, l_logs |-> <<>>]]

\* get_job_status_summary(d_response): [summary, d_response], for the summary's
\* l_logs is the response's own list object, so that cutting its first entry
\* changes the response too.
get_job_status_summary(d_response) ==
    LET d_c == d_response.compute
        l_logs == d_c.d_ret.l_logs
        cut == IF l_logs # <<>> /\ l_logs[1].hi - l_logs[1].lo > MaxLogLen
               THEN [l_logs EXCEPT ![1] = LogTail(@)]
               ELSE l_logs
    IN  [summary |-> json_dumps([InitialSummary EXCEPT
                         !.return = [status |-> d_c.status,
                                     l_status |-> d_c.d_ret.l_status,
                                     l_logs |-> cut]]),
         d_response |-> [d_response EXCEPT !.compute.d_ret.l_logs = cut]]

\* core.utils.json_zip2str
json_zip2str(d) == <<[json_zip |-> d]>>

----------------------------------------------------------------------------
(* State                                                                   *)

NoTmp ==
    [args |-> <<>>, str_inputdir |-> <<>>,
     l_status |-> <<>>, unextpath |-> <<>>, zip_file |-> <<>>,
     content |-> [good |-> FALSE, entries |-> <<>>], names |-> <<>>]

\* The local variables of an invocation are gone when it returns or raises
return_locals(t, next) == IF next \in {"done", "raised"} THEN NoTmp ELSE t

\* The PluginInstance row as the API layer created it
NewRow == [status |-> "ready", summary |-> <<>>, raw |-> <<>>, end_date |-> NoDate]

Init ==
    /\ job \in Jobs
    /\ db = NewRow
    /\ locks = {}
    /\ files = <<>>
    /\ swift = InitialObjects
    /\ remote = "none"
    /\ pc = [p \in Procs |-> "idle"]
    /\ inst = [p \in Procs |-> NewRow]
    /\ tmp = [p \in Procs |-> NoTmp]
    /\ ret = [p \in Procs |-> ""]
    /\ log = [p \in Procs |-> <<>>]

----------------------------------------------------------------------------
(* Loading the plugin instance and the final save                          *)

\* plg_inst = PluginInstance.objects.get(id=...);
\* PluginInstanceManager(plg_inst): the invocation works on its own copy
load_plugin_instance(p) ==
    /\ pc[p] = "idle"
    /\ inst' = [inst EXCEPT ![p] = db]
    /\ pc' = [pc EXCEPT ![p] = "loaded"]
    /\ UNCHANGED <<job, db, locks, files, swift, remote, tmp, ret, log>>

\* The bug of saving the final status with save() alone
final_row_without_end_date(row) == row

\* The row save_plugin_instance_final_status writes
final_row(row) == [row EXCEPT !.end_date = timezone_now]

\* save_plugin_instance_final_status: end_date = now, then save() of every
\* field of the in-memory object.  It is the last statement of both callers;
\* check_plugin_instance_app_exec_status then returns the in-memory status.
save_plugin_instance_final_status(p) ==
    /\ pc[p] = "save_final"
    /\ inst' = [inst EXCEPT ![p] = final_row(@)]
    /\ db' = inst'[p]
    /\ log' = [log EXCEPT ![p] = Append(@, SaveOp(inst'[p]))]
    /\ ret' = [ret EXCEPT ![p] = IF p \in Polls THEN inst'[p].status ELSE @]
    /\ pc' = [pc EXCEPT ![p] = "done"]
    /\ tmp' = [tmp EXCEPT ![p] = NoTmp]
    /\ UNCHANGED <<job, locks, files, swift, remote>>

----------------------------------------------------------------------------
(* run_plugin_instance_app                                                 *)

\* The bug of letting a 'path' parameter win over the previous job
resolve_inputdir_path_first(previous, d_path_params) ==
    IF Len(d_path_params) > 0
    THEN <<Strip(Split(d_path_params[1].v, COMMA)[1], SLASH)>>
    ELSE IF previous THEN <<PreviousOutputPath>> ELSE <<>>

\* The input dir when no storage call is needed to find it, <<>> otherwise
resolve_inputdir(previous, d_path_params) ==
    IF previous THEN <<PreviousOutputPath>>
    ELSE IF Len(d_path_params) > 0
         THEN <<Strip(Split(d_path_params[1].v, COMMA)[1], SLASH)>>
         ELSE <<>>

\* The bug of submitting whatever the status
submit_skipped_never(status) == FALSE

\* Line 119: a job already cancelled is not submitted
submit_skipped(status) == status = "cancelled"

\* Lines 119-135: the cancelled check, the arguments, the input dir and the
\* zip file of the input objects.
run_plugin_instance_app_begin ==
    LET p == SubmitProc
        a == get_plugin_instance_app_cmd_args(job.params)
        known == resolve_inputdir(job.previous, a.path)
        str_inputdir == IF known # <<>> THEN known[1] ELSE EmptyInputDir
    IN
    /\ pc[p] = "loaded"
    /\ IF submit_skipped(inst[p].status)
       THEN /\ pc' = [pc EXCEPT ![p] = "done"]
            /\ UNCHANGED <<swift, tmp, log>>
       ELSE \E sentinelFails \in (IF known = <<>> THEN SentinelFails ELSE {"none"}) :
            LET e == manage_fsplugin_instance_app_empty_inputdir(swift, sentinelFails)
                sw == IF known = <<>> THEN e.sw ELSE swift
                ops0 == IF known = <<>> THEN e.ops ELSE <<>>
            IN  \E lsFails \in SUBSET {str_inputdir} :
                \E bad \in SUBSET (IF lsFails = {} THEN Range(swift_ls(sw, str_inputdir))
                                   ELSE {}) :
                LET z == create_zip_file(sw, <<str_inputdir>>, lsFails, bad)
                    l_ls == IF lsFails = {} THEN swift_ls(sw, str_inputdir) ELSE <<>>
                IN  /\ swift' = sw
                    /\ log' = [log EXCEPT ![p] =
                                  @ \o ops0 \o Ops(<<"swift_ls">>) \o
                                  [i \in 1..(Len(z.entries) + (IF z.raised THEN 1 ELSE 0))
                                      |-> IF l_ls[i] \in bad
                                          THEN RaisedOp("swift_download_obj")
                                          ELSE Op("swift_download_obj")]]
                    /\ tmp' = [tmp EXCEPT ![p] =
                                  return_locals([@ EXCEPT !.args = a.args,
                                                          !.str_inputdir = str_inputdir,
                                                          !.unextpath = a.unextpath,
                                                          !.zip_file = z.entries],
                                                IF z.raised THEN "raised" ELSE "post")]
                    /\ pc' = [pc EXCEPT ![p] = IF z.raised THEN "raised" ELSE "post"]
    /\ UNCHANGED <<job, db, locks, files, remote, inst, ret>>

\* The bug of not looking at how the POST ended
after_post_always_unextpath(outcome) == "unextpath"

\* What follows the POST: the status to save at once, or the unextpath step
after_post(outcome) == IF outcome = "ok" THEN "unextpath" ELSE "save_final"

\* Lines 159-170 and 180-184: the POST to pfcon.  outcome: "exception"
\* (Timeout, RequestException), "error" (a status code other than 200), "ok".
run_plugin_instance_app_post ==
    LET p == SubmitProc IN
    /\ pc[p] = "post"
    /\ \E outcome \in {"exception", "error", "ok"} :
        /\ remote' = IF outcome = "ok" THEN "running" ELSE remote
        /\ inst' = [inst EXCEPT ![p].status =
                       IF after_post(outcome) = "save_final" THEN "cancelled" ELSE @]
        /\ pc' = [pc EXCEPT ![p] = after_post(outcome)]
        /\ log' = [log EXCEPT ![p] = Append(@, ReqOp("post", outcome, <<>>))]
    /\ UNCHANGED <<job, db, locks, files, swift, tmp, ret>>

\* The bug of leaving raw out
started_row_without_raw(row) ==
    [row EXCEPT !.status = "started", !.summary = json_dumps(InitialSummary)]

\* The in-memory row after lines 175-178
started_row(row) ==
    [row EXCEPT !.status = "started",
                !.summary = json_dumps(InitialSummary),
                !.raw = json_zip2str(StatusResponse("running"))]

\* Lines 171-178: _handle_app_unextpath_parameters, then status, summary and
\* raw are set on the in-memory object.
run_plugin_instance_app_unextpath ==
    LET p == SubmitProc
        paths == Range(FlattenPaths(tmp[p].unextpath))
    IN
    /\ pc[p] = "unextpath"
    /\ \E lsFails \in SUBSET paths :
       \E copyFails \in SUBSET {o \in DOMAIN swift :
                                  \E q \in paths \ lsFails : StartsWith(o, q)} :
        LET h == handle_app_unextpath_parameters(swift, tmp[p].unextpath,
                                                 lsFails, copyFails)
        IN  /\ swift' = h.sw
            /\ files' = register_output_files(files, h.out)
            /\ log' = [log EXCEPT ![p] =
                          @ \o Ops(h.ops)
                            \o Ops([i \in 1..Len(h.out) |-> "register"])]
    /\ inst' = [inst EXCEPT ![p] = started_row(@)]
    /\ pc' = [pc EXCEPT ![p] = "save"]
    /\ UNCHANGED <<job, db, locks, remote, tmp, ret>>

\* Line 179: self.c_plugin_inst.save()
run_plugin_instance_app_save ==
    LET p == SubmitProc IN
    /\ pc[p] = "save"
    /\ db' = inst[p]
    /\ log' = [log EXCEPT ![p] = Append(@, SaveOp(inst[p]))]
    /\ pc' = [pc EXCEPT ![p] = "done"]
    /\ tmp' = [tmp EXCEPT ![p] = NoTmp]
    /\ UNCHANGED <<job, locks, files, swift, remote, inst, ret>>

----------------------------------------------------------------------------
(* check_plugin_instance_app_exec_status                                   *)

\* The bug of giving up on a failed status query, as submit does
after_status_query_gives_up(outcome) ==
    CASE outcome = "ok" -> "update"
      [] outcome = "malformed" -> "raised"
      [] OTHER -> "save_final"

\* Lines 197-209: what follows the GET of the status
after_status_query(outcome) ==
    CASE outcome = "ok" -> "update"
      [] outcome = "malformed" -> "raised"
      [] OTHER -> "done"

\* The bug of skipping the poll of a finished job only
poll_skipped_if_terminal(status) == status \in TerminalStatus

\* Line 193: only a job in 'started' is polled
poll_skipped(status) == status # "started"

\* Lines 193-217: nothing unless the in-memory status is 'started'; else the
\* GET of the job's status.  outcome: "exception" (Timeout,
\* RequestException), "error" (a status code other than 200), "malformed" (a
\* 200 whose body lacks compute / d_ret / l_status / l_logs: KeyError), "ok".
check_plugin_instance_app_exec_status_begin(p) ==
    /\ pc[p] = "loaded"
    /\ IF poll_skipped(inst[p].status)
       THEN /\ pc' = [pc EXCEPT ![p] = "done"]
            /\ ret' = [ret EXCEPT ![p] = inst[p].status]
            /\ UNCHANGED <<inst, tmp, log>>
       ELSE \E outcome \in {"exception", "error", "malformed", "ok"} :
                LET d_response == StatusResponse(remote)
                    s == get_job_status_summary(d_response)
                IN  /\ tmp' = [tmp EXCEPT
                                  ![p].l_status = IF outcome = "ok"
                                                  THEN d_response.compute.d_ret.l_status
                                                  ELSE @]
                    /\ inst' = [inst EXCEPT
                                  ![p].summary = IF outcome = "ok" THEN s.summary ELSE @,
                                  ![p].raw = IF outcome = "ok"
                                             THEN json_zip2str(s.d_response) ELSE @]
                    /\ pc' = [pc EXCEPT ![p] = after_status_query(outcome)]
                    /\ ret' = [ret EXCEPT ![p] =
                                  IF after_status_query(outcome) = "done"
                                  THEN inst[p].status ELSE @]
                    /\ log' = [log EXCEPT ![p] =
                                  Append(@, ReqOp("get_status", outcome,
                                                  IF outcome = "ok"
                                                  THEN d_response.compute.d_ret.l_status
                                                  ELSE <<>>))]
    /\ UNCHANGED <<job, db, locks, files, swift, remote>>

\* The bug the conditional update avoids: save() of the in-memory object
update_if_started_unconditional(row, summary, raw) ==
    [row EXCEPT !.status = "started", !.summary = summary, !.raw = raw]

\* PluginInstance.objects.filter(id=..., status='started').update(summary, raw)
update_if_started(row, summary, raw) ==
    IF row.status = "started"
    THEN [row EXCEPT !.summary = summary, !.raw = raw]
    ELSE row

\* Lines 223-227: which handler the step-status list selects
status_branch(l_status) ==
    IF "finishedSuccessfully" \in Range(l_status) THEN "lock"
    ELSE IF "finishedWithError" \in Range(l_status) THEN "save_final"
    ELSE "done"

\* Lines 219-227: the conditional update, then the branch on l_status.
\* _handle_finished_with_error_status sets the in-memory status and calls
\* save_plugin_instance_final_status.
check_plugin_instance_app_exec_status_update(p) ==
    /\ pc[p] = "update"
    /\ db' = update_if_started(db, inst[p].summary, inst[p].raw)
    /\ log' = [log EXCEPT ![p] = Append(@, Op("update"))]
    /\ LET next == status_branch(tmp[p].l_status)
       IN  /\ pc' = [pc EXCEPT ![p] = next]
           /\ inst' = [inst EXCEPT ![p].status =
                          IF next = "save_final" THEN "finishedWithError" ELSE @]
           /\ ret' = [ret EXCEPT ![p] = IF next = "done" THEN inst[p].status ELSE @]
           /\ tmp' = [tmp EXCEPT ![p] = return_locals(@, next)]
    /\ UNCHANGED <<job, locks, files, swift, remote>>

----------------------------------------------------------------------------
(* _handle_finished_successfully_status                                    *)

\* The bug the claims about the finalization lock rule out: the
\* IntegrityError is swallowed and the else part runs all the same
after_lock_save_always_fetch(saved) == "fetch"

\* The bug of a lock table without the uniqueness of plugin_inst
lock_save_always_ok(rows) == TRUE

\* PluginInstanceLock(plugin_inst=...).save(): the row is inserted unless the
\* job has a lock row already (IntegrityError)
lock_save_ok(rows) == rows = {}

\* Lines 356-361: try / except IntegrityError: pass / else
after_lock_save(saved) == IF saved THEN "fetch" ELSE "done"

handle_finished_successfully_status_lock(p) ==
    /\ pc[p] = "lock"
    /\ LET saved == lock_save_ok(locks)
           next == after_lock_save(saved)
       IN  /\ locks' = IF saved THEN locks \cup {[id |-> Cardinality(locks) + 1]}
                       ELSE locks
           /\ log' = [log EXCEPT ![p] =
                         Append(@, Op(IF saved THEN "lock_saved" ELSE "lock_conflict"))]
           /\ pc' = [pc EXCEPT ![p] = next]
           /\ ret' = [ret EXCEPT ![p] = IF next = "done" THEN inst[p].status ELSE @]
           /\ tmp' = [tmp EXCEPT ![p] = return_locals(@, next)]
    /\ UNCHANGED <<job, db, files, swift, remote, inst>>

\* The bug of not looking at how the GET of the zip file ended
after_fetch_ignores_failure(outcome) == "save_registering"

\* What follows the GET of the zip file
after_fetch(outcome) ==
    IF outcome \in {"ok", "badzip"} THEN "save_registering" ELSE "save_final"

\* The in-memory row after lines 373-378
registering_row(row) ==
    [row EXCEPT !.summary = json_dumps([json_loads(@) EXCEPT !.pullPath = TRUE]),
                !.status = "registeringFiles"]

\* Lines 365-378 and 389-393: the GET of the zip file.  outcome: "exception",
\* "error" (not 200), "ok" (200 with the result archive), "badzip" (200 with
\* bytes that are no zip file).
handle_finished_successfully_status_fetch(p) ==
    /\ pc[p] = "fetch"
    /\ \E outcome \in {"exception", "error", "ok", "badzip"} :
        LET next == after_fetch(outcome)
        IN  /\ tmp' = [tmp EXCEPT ![p].content =
                           IF next = "save_registering"
                           THEN [good |-> outcome = "ok",
                                 entries |-> IF outcome = "ok" THEN ResultZip ELSE <<>>]
                           ELSE @]
            /\ inst' = [inst EXCEPT ![p] =
                           IF next = "save_registering" THEN registering_row(@)
                           ELSE [@ EXCEPT !.status = "cancelled"]]
            /\ pc' = [pc EXCEPT ![p] = next]
            /\ log' = [log EXCEPT ![p] = Append(@, ReqOp("get_file", outcome, <<>>))]
    /\ UNCHANGED <<job, db, locks, files, swift, remote, ret>>

\* Line 379: self.c_plugin_inst.save()  # inform FE about status change
handle_finished_successfully_status_save(p) ==
    /\ pc[p] = "save_registering"
    /\ db' = inst[p]
    /\ log' = [log EXCEPT ![p] = Append(@, SaveOp(inst[p]))]
    /\ pc' = [pc EXCEPT ![p] = "unpack"]
    /\ UNCHANGED <<job, locks, files, swift, remote, inst, tmp, ret>>

\* The bug of registering whatever unpack_zip_file did
after_unpack_ignores_failure(raised) == "register"

\* Lines 380-387: try / except Exception / else
after_unpack(raised) == IF raised THEN "save_final" ELSE "register"

\* Lines 380-385: unpack_zip_file; any exception gives up
handle_finished_successfully_status_unpack(p) ==
    /\ pc[p] = "unpack"
    /\ \E failAt \in 0..Len(tmp[p].content.entries) :
        LET u == unpack_zip_file(swift, tmp[p].content, failAt)
            next == after_unpack(u.raised)
        IN  /\ swift' = u.sw
            /\ tmp' = [tmp EXCEPT ![p].names = u.names]
            /\ inst' = [inst EXCEPT ![p].status =
                           IF next = "save_final" THEN "cancelled" ELSE @]
            /\ pc' = [pc EXCEPT ![p] = next]
            /\ log' = [log EXCEPT ![p] =
                          @ \o Ops([i \in 1..Len(u.names) |-> "swift_upload_obj"])
                            \o (IF u.raised /\ tmp[p].content.good
                                THEN <<RaisedOp("swift_upload_obj")>> ELSE <<>>)
                            \o (IF u.raised
                                THEN <<RaisedOp("unpack_zip_file")>> ELSE <<>>)]
    /\ UNCHANGED <<job, db, locks, files, remote, ret>>

\* Lines 387-388: _register_output_files, then the in-memory status
handle_finished_successfully_status_register(p) ==
    /\ pc[p] = "register"
    /\ files' = register_output_files(files, tmp[p].names)
    /\ inst' = [inst EXCEPT ![p].status = "finishedSuccessfully"]
    /\ log' = [log EXCEPT ![p] = Append(@, Op("register"))]
    /\ pc' = [pc EXCEPT ![p] = "save_final"]
    /\ UNCHANGED <<job, db, locks, swift, remote, tmp, ret>>

----------------------------------------------------------------------------
(* The environment                                                         *)

\* The remote job ends; what its status list then holds does not change.
remote_job_ends ==
    /\ remote = "running"
    /\ remote' \in {"finishedSuccessfully", "finishedWithError", "mixed"}
    /\ UNCHANGED <<job, db, locks, files, swift, pc, inst, tmp, ret, log>>

\* The API layer marks the job cancelled at any time before it is over.
external_cancel ==
    /\ db.status \notin TerminalStatus
    /\ db' = [db EXCEPT !.status = "cancelled"]
    /\ UNCHANGED <<job, locks, files, swift, remote, pc, inst, tmp, ret, log>>

\* The same while no invocation that has loaded the job is running.
cancel_between_invocations ==
    /\ \A p \in Procs : pc[p] \in {"idle", "done", "raised"}
    /\ external_cancel

----------------------------------------------------------------------------
(* Specifications                                                          *)

Submit ==
    \/ run_plugin_instance_app_begin
    \/ run_plugin_instance_app_post
    \/ run_plugin_instance_app_unextpath
    \/ run_plugin_instance_app_save

Poll(p) ==
    \/ check_plugin_instance_app_exec_status_begin(p)
    \/ check_plugin_instance_app_exec_status_update(p)
    \/ handle_finished_successfully_status_lock(p)
    \/ handle_finished_successfully_status_fetch(p)
    \/ handle_finished_successfully_status_save(p)
    \/ handle_finished_successfully_status_unpack(p)
    \/ handle_finished_successfully_status_register(p)

Core ==
    \/ \E p \in Procs : load_plugin_instance(p)
    \/ Submit
    \/ \E p \in Polls : Poll(p)
    \/ \E p \in Procs : save_plugin_instance_final_status(p)
    \/ remote_job_ends

\* Submit, polls and an external actor that may cancel at any time
Next == Core \/ external_cancel

Spec == Init /\ [][Next]_vars

\* Submit and polls; the external actor cancels only between invocations
NextCore == Core \/ cancel_between_invocations

SpecCore == Init /\ [][NextCore]_vars

----------------------------------------------------------------------------
(* Submission alone, of jobs with any parameters                           *)

\* Longest list of parameter instances of a job
MaxParams == 2

ParamPool ==
    {PathParam, PathParam2, StrParam, FlagParam, FlagOffParam, NoFlagParam,
     NoFlagOffParam, UnextpathParam}

\* The lists of parameter instances: a plugin parameter has one instance
ParamLists ==
    UNION {{q \in [1..n -> ParamPool] :
               \A i, j \in 1..n : i # j => q[i].flag # q[j].flag} : n \in 0..MaxParams}

SubmitJobs == {[previous |-> b, params |-> q] : b \in BOOLEAN, q \in ParamLists}

InitSubmit ==
    /\ job \in SubmitJobs
    /\ db = NewRow
    /\ locks = {}
    /\ files = <<>>
    /\ swift = InitialObjects
    /\ remote = "none"
    /\ pc = [p \in Procs |-> "idle"]
    /\ inst = [p \in Procs |-> NewRow]
    /\ tmp = [p \in Procs |-> NoTmp]
    /\ ret = [p \in Procs |-> ""]
    /\ log = [p \in Procs |-> <<>>]

NextSubmit ==
    \/ load_plugin_instance(SubmitProc)
    \/ Submit
    \/ save_plugin_instance_final_status(SubmitProc)

SpecSubmit == InitSubmit /\ [][NextSubmit]_vars

----------------------------------------------------------------------------
(* Polls invoked again and again, and a worker that is killed              *)

\* The scheduler invokes check_plugin_instance_app_exec_status once more in
\* the place of an invocation that returned or raised.
poll_again(p) ==
    /\ pc[p] \in {"done", "raised"}
    /\ pc' = [pc EXCEPT ![p] = "idle"]
    /\ inst' = [inst EXCEPT ![p] = NewRow]
    /\ tmp' = [tmp EXCEPT ![p] = NoTmp]
    /\ ret' = [ret EXCEPT ![p] = ""]
    /\ log' = [log EXCEPT ![p] = <<>>]
    /\ UNCHANGED <<job, db, locks, files, swift, remote>>

\* The worker that runs invocation p is killed, or an error nothing catches
\* ends it, at any point between two of its statements; it happens to one
\* invocation at most, and that one is not run again.
worker_killed(p) ==
    /\ pc[p] \notin {"idle", "done", "raised", "killed"}
    /\ \A q \in Polls : pc[q] # "killed"
    /\ pc' = [pc EXCEPT ![p] = "killed"]
    /\ tmp' = [tmp EXCEPT ![p] = NoTmp]
    /\ UNCHANGED <<job, db, locks, files, swift, remote, inst, ret, log>>

NextLive ==
    \/ Core
    \/ \E p \in Polls : poll_again(p)
    \/ \E p \in Polls : worker_killed(p)

\* The status query of poll p returned 200 with a well-formed body
QueryOk(p) == log[p] # <<>> /\ log[p][1].op = "get_status" /\ log[p][1].status = "ok"

\* Every poll that is not killed goes on to its next statement, polls are
\* invoked again and again, and a status query that is made again and again
\* gets the remote's answer in the end.
Fairness ==
    /\ \A p \in Polls :
        /\ WF_vars(\/ load_plugin_instance(p)
                   \/ Poll(p)
                   \/ save_plugin_instance_final_status(p)
                   \/ poll_again(p))
        /\ SF_vars(check_plugin_instance_app_exec_status_begin(p) /\ QueryOk(p)')

\* A job whose input dir is that of its 'path' parameter
InitLive ==
    /\ job = [previous |-> FALSE, params |-> <<PathParam2>>]
    /\ db = NewRow
    /\ locks = {}
    /\ files = <<>>
    /\ swift = InitialObjects
    /\ remote = "none"
    /\ pc = [p \in Procs |-> "idle"]
    /\ inst = [p \in Procs |-> NewRow]
    /\ tmp = [p \in Procs |-> NoTmp]
    /\ ret = [p \in Procs |-> ""]
    /\ log = [p \in Procs |-> <<>>]

SpecLive == InitLive /\ [][NextLive]_vars /\ Fairness

----------------------------------------------------------------------------
(* A job with 'unextpath' parameter, from submission to the end            *)

\* The storage with one more object, which the prefix 'w' of the parameter
\* lists and which is not inside a directory 'w'
UnextpathObjects == InitialObjects @@ ( <<"w", "x">> :> "Bw" )

InitUnextpath ==
    /\ job = [previous |-> TRUE, params |-> <<PathParam, UnextpathParam>>]
    /\ db = NewRow
    /\ locks = {}
    /\ files = <<>>
    /\ swift = UnextpathObjects
    /\ remote = "none"
    /\ pc = [p \in Procs |-> "idle"]
    /\ inst = [p \in Procs |-> NewRow]
    /\ tmp = [p \in Procs |-> NoTmp]
    /\ ret = [p \in Procs |-> ""]
    /\ log = [p \in Procs |-> <<>>]

SpecUnextpath == InitUnextpath /\ [][Core]_vars

----------------------------------------------------------------------------
(* manage_fsplugin_instance_app_empty_inputdir called again and again      *)

\* Number of calls
MaxCalls == 4

\* The calls made so far: each begins with obj_exists
SentinelCalls == {i \in DOMAIN log[SubmitProc] : log[SubmitProc][i].op = "swift_obj_exists"}

\* One call of manage_fsplugin_instance_app_empty_inputdir, as the submission
\* of a job without previous job and without 'path' parameter makes it
empty_inputdir_call ==
    /\ Cardinality(SentinelCalls) < MaxCalls
    /\ \E fails \in SentinelFails :
        LET e == manage_fsplugin_instance_app_empty_inputdir(swift, fails)
        IN  /\ swift' = e.sw
            /\ log' = [log EXCEPT ![SubmitProc] = @ \o e.ops]
            /\ ret' = [ret EXCEPT ![SubmitProc] = EmptyInputDir]
    /\ UNCHANGED <<job, db, locks, files, remote, pc, inst, tmp>>

SpecSentinel == Init /\ [][empty_inputdir_call]_vars

----------------------------------------------------------------------------
(* _register_output_files called again and again                           *)

\* Longest list of names in one call
MaxNames == 3

FileNames ==
    {OutputPath \o <<SLASH, "r">>, OutputPath \o <<SLASH, "s">>,
     OutputPath \o <<SLASH, "f">>}

FileLists == UNION {[1..n -> FileNames] : n \in 0..MaxNames}

\* One call of _register_output_files(filenames)
register_output_files_call ==
    /\ \E filenames \in FileLists :
        /\ files' = register_output_files(files, filenames)
        /\ tmp' = [tmp EXCEPT ![SubmitProc].names = filenames]
    /\ UNCHANGED <<job, db, locks, swift, remote, pc, inst, ret, log>>

SpecRegister == Init /\ [][register_output_files_call]_vars

----------------------------------------------------------------------------
(* What an invocation has done                                             *)

\* The positions of the calls named name that returned normally
Calls(p, name) == {i \in DOMAIN log[p] : log[p][i].op = name /\ log[p][i].status # "raised"}

Did(p, name) == \E i \in DOMAIN log[p] : log[p][i].op = name

\* The positions of the saves that wrote status st
Saves(p, st) == {i \in DOMAIN log[p] : log[p][i].op = "save" /\ log[p][i].status = st}

Wrote(p, st) == Saves(p, st) # {}

Over(p) == pc[p] \in {"done", "raised"}

----------------------------------------------------------------------------
(* Claims                                                                  *)

\* The polls that got the finalization lock, fetched the archive, registered
\* output files, wrote 'finishedSuccessfully'
LockOwners == {p \in Polls : Did(p, "lock_saved")}
Fetchers == {p \in Polls : Did(p, "get_file")}
Registrars == {p \in Polls : Did(p, "register")}
SuccessWriters == {p \in Polls : Wrote(p, "finishedSuccessfully")}
\* The polls that saw 'finishedSuccessfully' and tried to insert the lock row
Finalizers == {p \in Polls : Did(p, "lock_saved") \/ Did(p, "lock_conflict")}

\* C1: among the polls of the job that see 'finishedSuccessfully', however
\* they interleave, exactly one gets the finalization lock and fetches the
\* result archive, once; only that one registers output files and writes
\* 'finishedSuccessfully' (it does both when the archive is fetched and
\* unpacked), each once; there is never a second archive fetch.
C1_ExactlyOneFinalizes ==
    /\ Cardinality(Fetchers) <= 1
    /\ \A p \in Polls :
        /\ Cardinality(Calls(p, "get_file")) <= 1
        /\ Cardinality(Calls(p, "register")) <= 1
        /\ Cardinality(Saves(p, "finishedSuccessfully")) <= 1
    /\ Fetchers \subseteq LockOwners
    /\ Registrars \subseteq Fetchers
    /\ SuccessWriters \subseteq Registrars
    /\ Finalizers # {} => Cardinality(LockOwners) = 1
    /\ \A p \in LockOwners : pc[p] = "done" =>
        /\ p \in Fetchers
        /\ p \in Registrars <=> p \in SuccessWriters
        /\ p \in SuccessWriters <=> ret[p] = "finishedSuccessfully"

\* C1 witness: every poll saw 'finishedSuccessfully' and has returned; one of
\* them fetched, registered and wrote 'finishedSuccessfully', the others lost
C1_Witness ==
    /\ Finalizers = Polls
    /\ \A p \in Polls : pc[p] = "done"
    /\ \E p \in Polls :
        /\ p \in Fetchers /\ p \in Registrars /\ p \in SuccessWriters
        /\ \A q \in Polls \ {p} : Did(q, "lock_conflict")

\* C2: a poll whose lock insert failed with a uniqueness conflict has returned
\* at once: the failed insert is the last thing it did, it made no archive
\* fetch, no upload and no registration, and it saved nothing.
C2_LoserDoesNothing ==
    \A p \in Polls : Did(p, "lock_conflict") =>
        /\ pc[p] = "done"
        /\ log[p][Len(log[p])].op = "lock_conflict"
        /\ ~Did(p, "lock_saved") /\ ~Did(p, "get_file")
        /\ ~Did(p, "swift_upload_obj") /\ ~Did(p, "register") /\ ~Did(p, "save")
        /\ ret[p] = "started"

\* C2 witness: a poll lost the insert while the owner had not yet saved
C2_Witness ==
    \E p \in Polls : Did(p, "lock_conflict") /\ db.status = "started"

\* The changes of the persisted status that move forward
ForwardEdges ==
    { <<"ready", "started">>, <<"started", "registeringFiles">>,
      <<"registeringFiles", "finishedSuccessfully">>,
      <<"started", "finishedWithError">> }
    \cup {<<st, "cancelled">> : st \in {"ready", "started", "registeringFiles"}}

C4_CancelledIsAbsorbing ==
    [][db.status = "cancelled" => db'.status = "cancelled"]_vars

\* C5: submit invoked on a job whose status is 'cancelled' returns at once:
\* no request, no storage call, no registration, no lock, and status, summary,
\* raw and end_date stay as they are.
C5_CancelledSubmitIsNoop ==
    [][(/\ pc[SubmitProc] = "loaded"
        /\ inst[SubmitProc].status = "cancelled"
        /\ pc'[SubmitProc] # "loaded")
       => (/\ pc'[SubmitProc] = "done"
           /\ log'[SubmitProc] = <<>>
           /\ UNCHANGED <<db, swift, files, locks, remote, inst>>)]_vars

\* C5 witness: submit has returned from a job it loaded as 'cancelled'
C5_Witness ==
    /\ pc[SubmitProc] = "done"
    /\ inst[SubmitProc].status = "cancelled"
    /\ log[SubmitProc] = <<>>

\* The POST of submit ended with an exception or a status other than 200
PostFailed ==
    \E i \in DOMAIN log[SubmitProc] :
        log[SubmitProc][i].op = "post" /\ log[SubmitProc][i].status = "failed"
PostOk ==
    \E i \in DOMAIN log[SubmitProc] :
        log[SubmitProc][i].op = "post" /\ log[SubmitProc][i].status = "ok"

LastOp(p) == log[p][Len(log[p])]

\* C6: after a failed POST submit does nothing but save 'cancelled' with
\* end_date: no copy, no registration, 'started' is never persisted, and when
\* it returns the job is 'cancelled' with end_date set.
C6_FailedSubmitCancels ==
    PostFailed =>
        /\ pc[SubmitProc] \in {"save_final", "done"}
        /\ ~Did(SubmitProc, "swift_copy_obj") /\ ~Did(SubmitProc, "register")
        /\ files = <<>>
        /\ ~Wrote(SubmitProc, "started")
        /\ db.status \in {"ready", "cancelled"}
        /\ pc[SubmitProc] = "save_final" => LastOp(SubmitProc).op = "post"
        /\ pc[SubmitProc] = "done" =>
            /\ LastOp(SubmitProc) = SaveOp([status |-> "cancelled",
                                            end_date |-> timezone_now])
            /\ Cardinality(Saves(SubmitProc, "cancelled")) = 1
            /\ db.status = "cancelled" /\ db.end_date = timezone_now

\* C6 witness: submit has returned after a failed POST
C6_Witness == PostFailed /\ pc[SubmitProc] = "done"

\* C7: the unextpath step runs only after a POST that returned 200 and while
\* 'started' is not yet persisted; the one write that persists 'started' comes
\* after it, is the last thing submit does, and carries the initial summary
\* and raw.
C7_UnextpathBeforeStarted ==
    [][/\ (pc[SubmitProc] = "unextpath" /\ pc'[SubmitProc] # "unextpath")
          => (/\ PostOk
              /\ ~Wrote(SubmitProc, "started")
              /\ db'.status = db.status /\ db.status # "started"
              /\ pc'[SubmitProc] = "save")
       /\ (log'[SubmitProc] # log[SubmitProc] /\ ~PostOk')
          => (files' = files /\ ~Did(SubmitProc, "swift_copy_obj")')
       /\ (db'.status = "started" /\ db.status # "started")
          => (/\ pc[SubmitProc] = "save" /\ pc'[SubmitProc] = "done"
              /\ PostOk
              /\ db'.summary = json_dumps(InitialSummary)
              /\ db'.raw = json_zip2str(StatusResponse("running"))
              /\ LastOp(SubmitProc)' = SaveOp(db')
              /\ Cardinality({i \in DOMAIN log'[SubmitProc] :
                                 log'[SubmitProc][i].op = "save"}) = 1
              /\ UNCHANGED <<files, swift>>)]_vars

\* C7 witness: 'started' is persisted and the copy made by the unextpath step
\* is registered
C7_Witness ==
    /\ pc[SubmitProc] = "done" /\ db.status = "started"
    /\ Did(SubmitProc, "swift_copy_obj") /\ files # <<>>

\* The status query of poll p failed
QueryFailed(p) ==
    \E i \in DOMAIN log[p] : log[p][i].op = "get_status" /\ log[p][i].status = "failed"

\* C8: a poll of a job in 'started' whose status query fails returns 'started'
\* and changes nothing: the row, the lock, the files and the storage are as
\* before, and the query is all it did.
C8_FailedQueryChangesNothing ==
    [][\A p \in Polls : (~QueryFailed(p) /\ QueryFailed(p)')
         => (/\ inst[p].status = "started"
             /\ pc'[p] = "done" /\ ret'[p] = "started"
             /\ Len(log'[p]) = 1
             /\ UNCHANGED <<db, locks, files, swift, remote, inst>>)]_vars

\* C8 witness: a poll failed its query and another poll of the job went on to
\* finalize it
C8_Witness ==
    \E p, q \in Polls :
        /\ QueryFailed(p) /\ pc[p] = "done" /\ ret[p] = "started"
        /\ Wrote(q, "finishedSuccessfully") /\ pc[q] = "done"

\* The status query of poll p returned a list with 'finishedWithError' and
\* without 'finishedSuccessfully'
SawErrorOnly(p) ==
    \E i \in DOMAIN log[p] :
        /\ log[p][i].op = "get_status"
        /\ "finishedWithError" \in Range(log[p][i].l_status)
        /\ "finishedSuccessfully" \notin Range(log[p][i].l_status)

\* C9: such a poll makes the conditional update and then one save of
\* 'finishedWithError' with end_date; it returns 'finishedWithError'; it makes
\* no archive fetch, no lock row and no registration, and the persisted status
\* is 'finishedWithError' with end_date set from then on.
C9_FinishedWithError ==
    \A p \in Polls : SawErrorOnly(p) =>
        /\ pc[p] \in {"update", "save_final", "done"}
        /\ ~Did(p, "get_file") /\ ~Did(p, "lock_saved") /\ ~Did(p, "lock_conflict")
        /\ ~Did(p, "register") /\ ~Did(p, "swift_upload_obj")
        /\ locks = {}
        /\ pc[p] = "done" =>
            /\ Len(log[p]) = 3
            /\ log[p][2].op = "update"
            /\ log[p][3] = SaveOp([status |-> "finishedWithError",
                                   end_date |-> timezone_now])
            /\ ret[p] = "finishedWithError"
            /\ db.status = "finishedWithError" /\ db.end_date = timezone_now

\* C9 witness: a poll that saw 'finishedWithError' has returned
C9_Witness == \E p \in Polls : SawErrorOnly(p) /\ pc[p] = "done"

\* The archive fetch of poll p failed
FetchFailed(p) ==
    \E i \in DOMAIN log[p] : log[p][i].op = "get_file" /\ log[p][i].status = "failed"

\* C10: when the lock owner's archive fetch fails, it saves 'cancelled' with
\* end_date and nothing else; no poll registers a file; the lock row stays;
\* every other poll that tries to finalize loses the insert and does nothing.
C10_FailedFetchCancels ==
    \A p \in Polls : FetchFailed(p) =>
        /\ pc[p] \in {"save_final", "done"}
        /\ Cardinality(locks) = 1
        /\ ~Did(p, "swift_upload_obj") /\ ~Wrote(p, "registeringFiles")
        /\ \A q \in Polls : ~Did(q, "register")
        /\ \A q \in Polls \ {p} :
            /\ ~Did(q, "lock_saved") /\ ~Did(q, "get_file") /\ ~Did(q, "save")
            /\ Did(q, "lock_conflict") => LastOp(q).op = "lock_conflict"
        /\ pc[p] = "done" =>
            /\ LastOp(p) = SaveOp([status |-> "cancelled", end_date |-> timezone_now])
            /\ Cardinality({i \in DOMAIN log[p] : log[p][i].op = "save"}) = 1
            /\ ret[p] = "cancelled"
            /\ db.status = "cancelled" /\ db.end_date = timezone_now

\* C10 witness: the owner has returned after a failed fetch and a poll that
\* had loaded the job in 'started' then lost the insert
C10_Witness ==
    \E p, q \in Polls :
        /\ FetchFailed(p) /\ pc[p] = "done"
        /\ Did(q, "lock_conflict") /\ pc[q] = "done"
        /\ db.status = "cancelled"

----------------------------------------------------------------------------
(* The lock row, end_date, failures of the finalization                    *)

\* C11: the job never has more than one finalization-lock row, however the
\* polls interleave, and no step of submit or poll removes a lock row.
C11_OneLockRowForever ==
    [][/\ Cardinality(locks) <= 1 /\ Cardinality(locks') <= 1
       /\ locks \subseteq locks']_vars

\* C11 witness: every poll tried to insert the lock row and has returned;
\* there is one row
C11_Witness ==
    /\ Finalizers = Polls
    /\ \A p \in Polls : pc[p] = "done"
    /\ Cardinality(locks) = 1

\* What the saves of submit and polls wrote, and the persisted row
EndDateGoesWithTerminal(row) ==
    /\ row.status \in TerminalStatus => row.end_date = timezone_now
    /\ row.status \in {"started", "registeringFiles"} => row.end_date = NoDate

\* C13: every save of submit or a poll that writes a terminal status writes
\* end_date with it, and every save that writes 'started' or
\* 'registeringFiles' leaves end_date unset; so a persisted 'started' or
\* 'registeringFiles' has no end_date, and a terminal status that submit or a
\* poll wrote has one.
C13_EndDateWithTerminalStatus ==
    [][/\ \A p \in Procs : \A i \in DOMAIN log'[p] :
            log'[p][i].op = "save" => EndDateGoesWithTerminal(log'[p][i])
       /\ db'.status \in {"ready", "started", "registeringFiles"}
            => db'.end_date = NoDate
       /\ db'.status \in {"finishedSuccessfully", "finishedWithError"}
            => db'.end_date = timezone_now
       /\ (db' # db /\ log' # log) => EndDateGoesWithTerminal(db')]_vars

\* C13 witness: a poll saved 'registeringFiles' and then a terminal status
C13_Witness ==
    \E p \in Polls :
        /\ Wrote(p, "registeringFiles") /\ pc[p] = "done"
        /\ db.status \in TerminalStatus /\ db.end_date = timezone_now

\* unpack_zip_file of poll p raised
UnpackFailed(p) == Did(p, "unpack_zip_file")

\* The storage paths of the entries of the result archive
ArchivePaths ==
    {(OutputPath \o <<SLASH>>) \o LStrip(ResultZip[i].name, SLASH) : i \in DOMAIN ResultZip}

\* C14: when unpacking the fetched archive fails, the poll registers nothing
\* and saves 'cancelled' with end_date as its last act; the job never is
\* 'finishedSuccessfully' and no path of the archive is registered.
C14_FailedUnpackCancels ==
    \A p \in Polls : UnpackFailed(p) =>
        /\ pc[p] \in {"save_final", "done"}
        /\ ~Did(p, "register")
        /\ \A q \in Polls : ~Wrote(q, "finishedSuccessfully")
        /\ db.status # "finishedSuccessfully"
        /\ Range(files) \cap ArchivePaths = {}
        /\ pc[p] = "done" =>
            /\ LastOp(p) = SaveOp([status |-> "cancelled", end_date |-> timezone_now])
            /\ ret[p] = "cancelled"
            /\ db.status = "cancelled" /\ db.end_date = timezone_now

\* C14 witness: the unpacking failed after an entry was uploaded, and the
\* poll has returned
C14_Witness ==
    \E p \in Polls :
        /\ UnpackFailed(p) /\ pc[p] = "done"
        /\ Calls(p, "swift_upload_obj") # {}

\* C15: whatever the remote and the storage answer, a poll returns a status
\* and never ends with an uncaught error.
C15_PollAlwaysReturns ==
    \A p \in Polls : pc[p] # "raised"

\* C20 as stated: when the archive fetch is issued or has been made, the
\* owner has already saved 'registeringFiles'.
C20_RegisteringBeforeFetch ==
    \A p \in Polls : (pc[p] = "fetch" \/ Did(p, "get_file")) =>
        \E i \in Saves(p, "registeringFiles") :
            \A j \in DOMAIN log[p] : log[p][j].op = "get_file" => i < j

\* C20 amended: the owner issues the archive fetch before 'registeringFiles'
\* is persisted; it saves 'registeringFiles' right after a fetch that
\* returned 200 and before unpacking; after a failed fetch it never saves
\* 'registeringFiles' and its one save is that of 'cancelled'.
C20_RegisteringAfterFetch ==
    \A p \in Polls :
        /\ pc[p] = "fetch" =>
            /\ ~Wrote(p, "registeringFiles")
            /\ ~Did(p, "get_file")
            /\ db.status # "registeringFiles"
        /\ \A i \in Saves(p, "registeringFiles") :
            /\ i > 1
            /\ log[p][i - 1].op = "get_file"
            /\ log[p][i - 1].status \in {"ok", "badzip"}
            /\ \A j \in 1..i : log[p][j].op \notin {"swift_upload_obj", "unpack_zip_file"}
        /\ FetchFailed(p) =>
            /\ ~Wrote(p, "registeringFiles")
            /\ \A i \in DOMAIN log[p] :
                 log[p][i].op = "save" => log[p][i].status = "cancelled"

\* C20 witness: 'registeringFiles' is persisted, after the fetch
C20_Witness ==
    \E p \in Polls :
        /\ Wrote(p, "registeringFiles") /\ Did(p, "get_file")
        /\ db.status = "registeringFiles"

----------------------------------------------------------------------------
(* The helpers                                                             *)

NoDuplicates(seq) == \A i, j \in DOMAIN seq : i # j => seq[i] # seq[j]

\* C12: a call of _register_output_files leaves exactly one record for every
\* path registered before or named in the list, also when a path comes twice
\* in the list or was registered by an earlier call; the records there were
\* stay, and a duplicate does not keep the later paths of the list from being
\* registered.
C12_OneRecordPerPath ==
    [][LET filenames == tmp'[SubmitProc].names
       IN  /\ NoDuplicates(files) /\ NoDuplicates(files')
           /\ Range(files') = Range(files) \cup Range(filenames)
           /\ SubSeq(files', 1, Len(files)) = files]_vars

\* C12 witness: the last list named a registered path twice and then a new
\* one, which is registered
C12_Witness ==
    LET filenames == tmp[SubmitProc].names
    IN  /\ Len(filenames) = 3
        /\ filenames[1] = filenames[2] /\ filenames[3] # filenames[1]
        /\ Len(files) = 2
        /\ files[1] = filenames[1] /\ files[2] = filenames[3]

\* The 'path' parameter instances of the job, in declaration order
PathParams == SelectSeq(job.params, LAMBDA q : q.type = "path")

\* submit has resolved the input dir and not yet returned
InputResolved == pc[SubmitProc] \in {"post", "unextpath", "save", "save_final"}

\* C16 as stated: the previous job's output path if there is a previous job;
\* else the first comma-separated value of the first 'path' parameter without
\* its leading slash; else the empty-input sentinel location.
C16_InputPrecedence ==
    InputResolved =>
        tmp[SubmitProc].str_inputdir =
            IF job.previous THEN PreviousOutputPath
            ELSE IF PathParams # <<>>
                 THEN LStrip(Split(PathParams[1].value, COMMA)[1], SLASH)
                 ELSE EmptyInputDir

\* C16 amended: the same precedence, and the value of the 'path' parameter
\* loses its leading and its trailing slashes.
C16_InputPrecedenceStripped ==
    InputResolved =>
        tmp[SubmitProc].str_inputdir =
            IF job.previous THEN PreviousOutputPath
            ELSE IF PathParams # <<>>
                 THEN RStrip(LStrip(Split(PathParams[1].value, COMMA)[1], SLASH), SLASH)
                 ELSE EmptyInputDir

\* C16 witness: a job without previous job and with two 'path' parameters,
\* the first of which names a directory with a trailing slash
C16_Witness ==
    /\ InputResolved
    /\ ~job.previous
    /\ job.params = <<PathParam2, PathParam>>
    /\ tmp[SubmitProc].str_inputdir = <<"k">>

\* The empty-input object was uploaded by the calls logged in ops
SentinelUploads(ops) ==
    {i \in DOMAIN ops : ops[i].op = "swift_upload_obj" /\ ops[i].status # "raised"}
SentinelUploadTries(ops) == {i \in DOMAIN ops : ops[i].op = "swift_upload_obj"}

\* C17: over any sequence of calls the empty-input object is uploaded at most
\* once; a call uploads it only right after an existence check that returned
\* and found it absent; once it is there no call tries to upload it and the
\* storage stays as it is; every call returns the same location.
C17_SentinelUploadedOnce ==
    [][LET ops == log[SubmitProc]
           ops1 == log'[SubmitProc]
       IN  /\ Cardinality(SentinelUploads(ops1)) <= 1
           /\ \A i \in SentinelUploadTries(ops1) \ SentinelUploadTries(ops) :
                /\ ~swift_obj_exists(swift, SquashFile)
                /\ i > 1 /\ ops1[i - 1] = Op("swift_obj_exists")
           /\ swift_obj_exists(swift, SquashFile) =>
                /\ swift' = swift
                /\ SentinelUploadTries(ops1) = SentinelUploadTries(ops)
           /\ SentinelUploads(ops1) # SentinelUploads(ops) =>
                /\ swift_obj_exists(swift', SquashFile)
                /\ swift'[SquashFile] = "Empty input dir."
           /\ ret'[SubmitProc] = EmptyInputDir]_vars

\* C17 witness: a failed upload, then the upload, then a call that found the
\* object
C17_Witness ==
    LET ops == log[SubmitProc]
    IN  /\ Cardinality(SentinelUploads(ops)) = 1
        /\ Cardinality(SentinelUploadTries(ops)) = 2
        /\ Len(ops) > 1 /\ ops[Len(ops)] = Op("swift_obj_exists")
        /\ ops[Len(ops) - 1] = Op("swift_upload_obj")

\* What a parameter instance adds to the argument list
Emitted(param) ==
    IF param.action = "store" THEN <<param.flag, param.value>>
    ELSE IF \/ param.action = "store_true" /\ param.value = TRUE
            \/ param.action = "store_false" /\ param.value = FALSE
         THEN <<param.flag>>
         ELSE <<>>

RECURSIVE EmittedAll(_)
EmittedAll(params) ==
    IF params = <<>> THEN <<>> ELSE Emitted(Head(params)) \o EmittedAll(Tail(params))

C19_LogTruncation ==
    [][\A p \in Polls :
         (log[p] = <<>> /\ log'[p] # <<>> /\ log'[p][1].status = "ok") =>
            LET l_logs == RemoteLogs(remote)
                kept == json_loads(inst'[p].summary).return.l_logs
            IN  /\ pc'[p] = "update"
                /\ Len(kept) = Len(l_logs)
                /\ \A i \in DOMAIN l_logs : i > 1 => kept[i] = l_logs[i]
                /\ l_logs # <<>> =>
                     IF l_logs[1].hi - l_logs[1].lo > MaxLogLen
                     THEN /\ kept[1].hi = l_logs[1].hi
                          /\ kept[1].hi - kept[1].lo = MaxLogLen
                     ELSE kept[1] = l_logs[1]]_vars

\* C19 witness: a first entry of 3001 characters cut to its last 3000, the
\* second entry, longer, kept
C19_Witness ==
    \E p \in Polls :
        /\ pc[p] = "update"
        /\ json_loads(inst[p].summary).return.l_logs =
               <<[lo |-> 1, hi |-> MaxLogLen + 1], [lo |-> 0, hi |-> MaxLogLen + 2]>>

----------------------------------------------------------------------------
(* The poll: refresh, skipped poll, raw                                    *)

\* The status query of poll p returned a list without terminal marker
SawNoTerminalMarker(p) ==
    /\ log[p] # <<>>
    /\ log[p][1].op = "get_status" /\ log[p][1].status = "ok"
    /\ "finishedSuccessfully" \notin Range(log[p][1].l_status)
    /\ "finishedWithError" \notin Range(log[p][1].l_status)

\* C21: the refresh of a poll is one statement that writes summary and raw
\* and nothing else, and writes them only if the persisted status is
\* 'started' when it runs; a poll that saw no terminal marker does nothing
\* but the query and the refresh, so it never changes the persisted status,
\* nor summary or raw of a job that is no longer 'started'.
C21_RefreshOnlyIfStarted ==
    [][\A p \in Polls :
        /\ (pc[p] = "update" /\ pc'[p] # "update") =>
              /\ db'.status = db.status /\ db'.end_date = db.end_date
              /\ db.status # "started" => db' = db
              /\ db.status = "started" =>
                    db'.summary = inst[p].summary /\ db'.raw = inst[p].raw
              /\ UNCHANGED <<locks, files, swift>>
        /\ (SawNoTerminalMarker(p)' /\ log'[p] # log[p]) =>
              /\ Len(log'[p]) <= 2
              /\ db'.status = db.status
              /\ db.status # "started" => db' = db]_vars

\* C21 witness: a poll that saw no terminal marker has made its refresh and
\* returned; the job is past 'started' and does not have the summary of
\* that poll
C21_Witness ==
    \E p \in Polls :
        /\ SawNoTerminalMarker(p) /\ pc[p] = "done" /\ Did(p, "update")
        /\ db.status \in {"registeringFiles", "finishedSuccessfully"}
        /\ db.summary # inst[p].summary

\* C23: a poll of a job it loaded in a status other than 'started' returns
\* that status at once: no request, no lock row, no write, no registration.
C23_PollOnlyWhenStarted ==
    [][\A p \in Polls :
        (/\ pc[p] = "loaded" /\ inst[p].status # "started"
         /\ pc'[p] # "loaded")
        => (/\ pc'[p] = "done"
            /\ ret'[p] = inst[p].status
            /\ log'[p] = <<>>
            /\ UNCHANGED <<db, locks, files, swift, remote, inst>>)]_vars

\* C23 witness: a poll of a job in 'registeringFiles' returned it while the
\* owner of the lock was unpacking
C23_Witness ==
    \E p, q \in Polls :
        /\ pc[p] = "done" /\ log[p] = <<>> /\ ret[p] = "registeringFiles"
        /\ pc[q] = "unpack"

\* C24: after a status query that succeeded, raw is the encoding of the
\* response as it was received, with every log entry whole, and that is what
\* the refresh persists for a job in 'started'.
C24_RawIsTheResponse ==
    [][\A p \in Polls :
        /\ (log[p] = <<>> /\ log'[p] # <<>> /\ log'[p][1].status = "ok") =>
              inst'[p].raw = json_zip2str(StatusResponse(remote))
        /\ (pc[p] = "update" /\ pc'[p] # "update" /\ db.status = "started") =>
              db'.raw = inst[p].raw]_vars

\* C26: while the persisted status is 'finishedSuccessfully' the job has its
\* lock row, a poll fetched the result archive with status 200, and every
\* entry of the archive is in storage under the output path, with its bytes,
\* and has a file record.
C26_FinishedSuccessfullyMeansRegistered ==
    db.status = "finishedSuccessfully" =>
        /\ Cardinality(locks) = 1
        /\ \E p \in Polls : \E i \in DOMAIN log[p] :
               log[p][i].op = "get_file" /\ log[p][i].status = "ok"
        /\ \A i \in DOMAIN ResultZip :
             LET swift_fname == (OutputPath \o <<SLASH>>) \o LStrip(ResultZip[i].name, SLASH)
             IN  /\ swift_obj_exists(swift, swift_fname)
                 /\ swift[swift_fname] = ResultZip[i].data
                 /\ swift_fname \in Range(files)

\* C26 witness: the job is 'finishedSuccessfully', with the files of the
\* archive and the copy of the unextpath step registered
C26_Witness ==
    /\ db.status = "finishedSuccessfully"
    /\ Len(files) > Len(ResultZip)

----------------------------------------------------------------------------
(* The zip file of the input                                               *)

\* The name of object obj in the zip file of the input dir
ZipName(obj) == LStrip(Replace1(obj, tmp[SubmitProc].str_inputdir, <<>>), SLASH)

\* C22: when the download of a listed object fails, create_zip_file does not
\* raise; the zip file has one entry for each object whose download
\* succeeded and none for the others, and each entry has the stripped name
\* and the bytes of one object of the input dir.
C22_PackSkipsFailedDownload ==
    /\ pc[SubmitProc] # "raised"
    /\ InputResolved =>
        LET zip_file == tmp[SubmitProc].zip_file
        IN  /\ Len(zip_file) = Cardinality(Calls(SubmitProc, "swift_download_obj"))
            /\ NoDuplicates(zip_file)
            /\ \A i \in DOMAIN zip_file :
                 \E obj \in DOMAIN swift :
                    /\ StartsWith(obj, tmp[SubmitProc].str_inputdir)
                    /\ zip_file[i].name = ZipName(obj)
                    /\ zip_file[i].data = swift[obj]

----------------------------------------------------------------------------
(* The registered files                                                    *)

\* C25: every registered file is inside the output dir of the job: its path
\* is the output path, a slash and more, be it a copy made by the unextpath
\* step or an entry of the result archive.
C25_FilesInsideOutputPath ==
    \A i \in DOMAIN files :
        /\ StartsWith(files[i], OutputPath \o <<SLASH>>)
        /\ Len(files[i]) > Len(OutputPath) + 1

\* C25 witness: registered are a copy whose path the replacement gave, a
\* copy whose path is the output path and the base name, and an entry of
\* the archive
C25_Witness ==
    /\ OutputPath \o <<SLASH, "f">> \in Range(files)
    /\ OutputPath \o <<SLASH, "w", "x">> \in Range(files)
    /\ OutputPath \o <<SLASH, "r">> \in Range(files)

----------------------------------------------------------------------------
(* Progress                                                                *)

\* The remote reports a terminal marker
RemoteTerminal == remote \in {"finishedSuccessfully", "finishedWithError", "mixed"}

\* C27: once the job is submitted and the remote reports a terminal marker,
\* and with polls invoked again and again, the persisted status becomes
\* terminal in the end, also when the invocation that inserted the lock row
\* is killed before its last save.
C27_EventuallyTerminal ==
    (RemoteTerminal /\ pc[SubmitProc] = "done") ~> (db.status \in TerminalStatus)

====
